---- MODULE Spec2Model ----
(***************************************************************************)
(* The minimal Promise of src/how-then-works/promise.js, with the host's   *)
(* microtask queue and the caller's code as the environment.               *)
(*                                                                         *)
(* A cell is one object built by `new Promise(executorFn)`: the closure    *)
(* variables state, value and deferred (lines 2-4), and the one property   *)
(* the constructor assigns on `this`, then (line 34).  resolve and handle  *)
(* are function declarations local to the constructor's closure (lines 6   *)
(* and 15); neither is assigned on `this`.                                 *)
(*                                                                         *)
(* One action is one whole call made by the caller's code (the             *)
(* constructor, then, a stored resolve), or one step of the host's event   *)
(* loop.  `last` records the call that has just returned or raised.        *)
(***************************************************************************)
EXTENDS Integers, Sequences, FiniteSets

\* ------------------------------------------------------------------ bounds
MaxCells  == 3      \* cells ever constructed
MaxVal    == 0      \* the caller settles with the numbers 0..MaxVal
MaxSettle == 2      \* calls of stored resolves made by the caller

Values == 0 .. MaxVal

\* ------------------------------------------------------------- JS values
\* `var value;` (line 3): undefined until resolve assigns it.
Undefined == -1

\* `var deferred = null;` (line 4).  A handler is {onResolved, resolve}
\* (lines 36-39): resolve is the child cell whose resolve it holds, and
\* onResolved is "none" for then() called without a callback.
Null == [onResolved |-> "none", resolve |-> 0]

\* The callbacks the caller passes to then: x => x + 1 and
\* x => { throw ... }.
Fns == {"inc", "boom"}

Throws(f) == f = "boom"

\* A value that is itself a cell: the reference to cell c, and back.
CellRef(c) == -1 - c

IsCell(v) == v < -1

CellOf(v) == -1 - v

\* x => x + 1 on a number; on a cell (an object) JavaScript's + gives a
\* string, "[object Object]1", and on a string a longer string: one value
\* stands for them all.
Text == -100

Apply(f, v) ==
  IF f = "inc" THEN (IF v >= 0 THEN v + 1 ELSE Text) ELSE Undefined

\* The executor functions the caller passes to the constructor:
\*   "settle": resolve => resolve(v)            (settles at once)
\*   "keep"  : resolve => { stored = resolve }  (settles later, or never)
\*   "throw" : resolve => { throw ... }
Producers == {"settle", "keep", "throw"}

VARIABLES
  cells,     \* cells[c] = [state, value, deferred]: the closure of cell c
  meta,      \* meta[c] = [parent, fn, pre, calls, ...]: how c was made (by
             \* then(fn) on parent, whose state was pre), the number of
             \* calls of its resolve so far, and
             \*   execs : the calls of its executor function so far
             \*   atExec: its closure when the executor function was called
             \*   raised: its executor function raised
             \*   stores: the assignments of its deferred so far
             \*   regs  : the calls parent.handle(handler) made for it
  queue,     \* the host's microtask queue, oldest first
  ran,       \* the onResolved callbacks run so far, oldest first, each with
             \* the argument it got (arg) and the parent's value when its
             \* microtask was queued (seen)
  objs,      \* the cells the caller's code holds a reference to
  settlers,  \* the cells whose resolve the caller's code has stored
  inTask,    \* TRUE while the caller's code is on the stack
  taskFrom,  \* the number of cells when the current task started
  last       \* the call that has just ended

vars == <<cells, meta, queue, ran, objs, settlers, inTask, taskFrom, last>>

\* The part of the state that resolve and handle read and write.
Heap == [cells |-> cells, meta |-> meta, queue |-> queue, ran |-> ran]

NoCall ==
  [op |-> "none", cell |-> 0, fn |-> "none", arg |-> Undefined,
   outcome |-> "returned", child |-> 0, preState |-> "none",
   preValue |-> Undefined, preDeferred |-> Null, ranAt |-> 0,
   queueAt |-> 0]

\* ------------------------------------------------------ the constructor
\* Lines 2-4: the closure of a cell as the constructor's body starts.
NewCell == [state |-> "pending", value |-> Undefined, deferred |-> Null]

\* Lines 32-34: the properties the constructor assigns on `this`.
Properties == {"then"}

\* H with one more cell, made by then on `parent` with callback f (parent 0:
\* made by the caller's own `new Promise`).
Allocate(H, parent, f) ==
  [H EXCEPT !.cells = Append(@, NewCell),
            !.meta  = Append(@, [parent |-> parent, fn |-> f, calls |-> 0,
                                 pre |-> IF parent = 0 THEN "none"
                                         ELSE H.cells[parent].state,
                                 execs |-> 0, atExec |-> NewCell,
                                 raised |-> FALSE, stores |-> 0,
                                 regs |-> 0])]

\* ------------------------------------------------------ queueMicrotask
\* Line 26: the arrow function closes over the cell (its value is read
\* when the microtask runs) and the handler.  `seen` records the cell's
\* value at this moment; the arrow function does not hold it.
queueMicrotask(H, c, handler) ==
  [H EXCEPT !.queue = Append(@, [cell |-> c, handler |-> handler,
                                 seen |-> H.cells[c].value])]

\* ----------------------------------------------------- resolve, handle
RECURSIVE resolve(_, _, _), handle(_, _, _)

\* resolve with line 7 left out: the state is set, the value is not.
resolve_NoValue(H, c, newValue) ==
  LET H1 == [H EXCEPT !.cells[c].state = "resolved",
                      !.meta[c].calls  = @ + 1]
  IN  IF H1.cells[c].deferred # Null
        THEN handle(H1, c, H1.cells[c].deferred)
        ELSE H1

\* resolve that flips the state: a second call makes the cell pending again.
resolve_Reopens(H, c, newValue) ==
  LET H1 == [H EXCEPT !.cells[c].value = newValue,
                      !.cells[c].state =
                        IF @ = "pending" THEN "resolved" ELSE "pending",
                      !.meta[c].calls  = @ + 1]
  IN  IF H1.cells[c].deferred # Null
        THEN handle(H1, c, H1.cells[c].deferred)
        ELSE H1

\* resolve without the check of line 10: delivery is queued in any case.
resolve_AlwaysDelivers(H, c, newValue) ==
  LET H1 == [H EXCEPT !.cells[c].value = newValue,
                      !.cells[c].state = "resolved",
                      !.meta[c].calls  = @ + 1]
  IN  queueMicrotask(H1, c, H1.cells[c].deferred)

\* resolve that unwraps a cell: it takes over the value of a RESOLVED cell,
\* and stores a handler on a PENDING one and waits for it.
resolve_Unwraps(H, c, newValue) ==
  IF IsCell(newValue)
    THEN LET d  == CellOf(newValue)
             H0 == [H EXCEPT !.meta[c].calls = @ + 1]
         IN  IF H.cells[d].state = "resolved"
               THEN [H0 EXCEPT !.cells[c].value = H.cells[d].value,
                               !.cells[c].state = "resolved"]
               ELSE handle(H0, d, [onResolved |-> "none", resolve |-> c])
    ELSE LET H1 == [H EXCEPT !.cells[c].value = newValue,
                             !.cells[c].state = "resolved",
                             !.meta[c].calls  = @ + 1]
         IN  IF H1.cells[c].deferred # Null
               THEN handle(H1, c, H1.cells[c].deferred)
               ELSE H1

\* Lines 6-13.
resolve(H, c, newValue) ==
  LET H1 == [H EXCEPT !.cells[c].value = newValue,
                      !.cells[c].state = "resolved",
                      !.meta[c].calls  = @ + 1]
  IN  IF H1.cells[c].deferred # Null
        THEN handle(H1, c, H1.cells[c].deferred)
        ELSE H1

\* Lines 15-30.
handle(H, c, handler) ==
  IF H.cells[c].state = "pending"
    THEN [H EXCEPT !.cells[c].deferred = handler,
                   !.meta[c].stores = @ + 1]
    ELSE IF handler.onResolved = "none"
      THEN resolve(H, handler.resolve, H.cells[c].value)
      ELSE queueMicrotask(H, c, handler)

\* The executor function called once more than line 47 calls it.
executorFn_Twice(H, c, producer, v) ==
  LET H1 == [H EXCEPT !.meta[c].execs = @ + 2,
                      !.meta[c].atExec = H.cells[c]]
  IN  IF producer = "settle" THEN resolve(resolve(H1, c, v), c, v) ELSE H1

\* A constructor that catches what the executor function throws and
\* settles the cell with it.
executorFn_CatchesThrow(H, c, producer, v) ==
  LET H1 == [H EXCEPT !.meta[c].execs = @ + 1,
                      !.meta[c].atExec = H.cells[c]]
  IN  IF producer = "keep" THEN H1 ELSE resolve(H1, c, v)

\* Line 47, executorFn(resolve), for the caller's executor functions: the
\* argument is the resolve of the cell under construction.
executorFn(H, c, producer, v) ==
  LET H1 == [H EXCEPT !.meta[c].execs = @ + 1,
                      !.meta[c].atExec = H.cells[c]]
  IN  IF producer = "settle" THEN resolve(H1, c, v) ELSE H1

\* Lines 27-28: the body of the queued arrow function.
RunMicrotask(H, m) ==
  LET v  == H.cells[m.cell].value
      f  == m.handler.onResolved
      H1 == [H EXCEPT !.ran = Append(@, [fn |-> f, arg |-> v,
                                          child |-> m.handler.resolve,
                                          seen |-> m.seen])]
  IN  IF Throws(f) THEN H1
      ELSE resolve(H1, m.handler.resolve, Apply(f, v))

Commit(H) ==
  /\ cells' = H.cells
  /\ meta'  = H.meta
  /\ queue' = H.queue
  /\ ran'   = H.ran

\* The calls of stored resolves the caller's code has made so far.
RECURSIVE CallsUpTo(_)
CallsUpTo(c) ==
  IF c = 0 THEN 0
  ELSE (IF c \in settlers THEN meta[c].calls ELSE 0) + CallsUpTo(c - 1)

Settles == CallsUpTo(Len(meta))

\* The references to the cells there can be.
CellRefs == {CellRef(1)}

\* ---------------------------------------------------------------- Init
Init ==
  /\ cells = <<>>
  /\ meta = <<>>
  /\ queue = <<>>
  /\ ran = <<>>
  /\ objs = {}
  /\ settlers = {}
  /\ inTask = TRUE
  /\ taskFrom = 0
  /\ last = NoCall

\* ------------------------------------------------------------- actions
\* new Promise(executorFn) called by the caller's code (lines 1-48).  The
\* closure and this.then are set up, then executorFn(resolve) runs (line
\* 47); if it throws, the constructor raises and the caller gets no object.
Promise(producer, v) ==
  /\ inTask
  /\ Len(cells) < MaxCells
  /\ LET c  == Len(cells) + 1
         H0 == executorFn(Allocate(Heap, 0, "none"), c, producer, v)
         H1 == [H0 EXCEPT !.meta[c].raised = (producer = "throw")]
     IN  /\ Commit(H1)
         /\ objs' = IF producer = "throw" THEN objs ELSE objs \cup {c}
         /\ settlers' = IF producer = "keep" THEN settlers \cup {c}
                        ELSE settlers
         /\ last' = [NoCall EXCEPT
                       !.op = "construct", !.cell = c,
                       !.arg = IF producer = "settle" THEN v ELSE Undefined,
                       !.outcome = IF producer = "throw" THEN "raised"
                                   ELSE "returned",
                       !.ranAt = Len(ran), !.queueAt = Len(queue)]
  /\ UNCHANGED <<inTask, taskFrom>>

\* p.then(onResolved) (lines 34-45).  `new Promise(childExecutorFn)` sets up
\* the child's closure and calls childExecutorFn(resolve) (line 47), which
\* builds the handler (lines 36-39) and evaluates parent.handle(handler)
\* (line 40): a property lookup on the parent object.  handle is not among
\* the object's properties, so the lookup gives undefined and the call
\* raises a TypeError, which leaves childExecutorFn, the child's constructor
\* and then; line 44 is not reached.
then(p, onResolved) ==
  /\ inTask
  /\ p \in objs
  /\ Len(cells) < MaxCells
  /\ LET c       == Len(cells) + 1
         A       == Allocate(Heap, p, onResolved)
         H0      == [A EXCEPT !.meta[c].execs = @ + 1,
                              !.meta[c].atExec = A.cells[c]]
         handler == [onResolved |-> onResolved, resolve |-> c]
         found   == "handle" \in Properties
         H1      == IF found
                      THEN handle([H0 EXCEPT !.meta[c].regs = @ + 1],
                                  p, handler)
                      ELSE [H0 EXCEPT !.meta[c].raised = TRUE]
     IN  /\ Commit(H1)
         /\ objs' = IF found THEN objs \cup {c} ELSE objs
         /\ last' = [NoCall EXCEPT
                       !.op = "then", !.cell = p, !.fn = onResolved,
                       !.outcome = IF found THEN "returned" ELSE "raised",
                       !.child = c,
                       !.preState = cells[p].state,
                       !.preValue = cells[p].value,
                       !.preDeferred = cells[p].deferred,
                       !.ranAt = Len(ran), !.queueAt = Len(queue)]
  /\ UNCHANGED <<settlers, inTask, taskFrom>>

\* A stored resolve called by the caller's code (lines 6-13), with a number
\* or with a cell the caller holds.
Settle(c, v) ==
  /\ inTask
  /\ c \in settlers
  /\ IsCell(v) => CellOf(v) \in objs
  /\ Settles < MaxSettle
  /\ Commit(resolve(Heap, c, v))
  /\ last' = [NoCall EXCEPT
                !.op = "settle", !.cell = c, !.arg = v,
                !.preState = cells[c].state,
                !.preValue = cells[c].value,
                !.preDeferred = cells[c].deferred,
                !.ranAt = Len(ran), !.queueAt = Len(queue)]
  /\ UNCHANGED <<objs, settlers, inTask, taskFrom>>

\* The caller's code returns to the host.
EndTask ==
  /\ inTask
  /\ inTask' = FALSE
  /\ last' = [NoCall EXCEPT !.op = "endtask", !.ranAt = Len(ran)]
  /\ UNCHANGED <<cells, meta, queue, ran, objs, settlers, taskFrom>>

\* One step of the host's event loop with the stack empty: the oldest
\* microtask if there is one, else the next task of the caller's code.
HostStep ==
  /\ ~inTask
  /\ IF queue # <<>>
       THEN /\ Commit(RunMicrotask([Heap EXCEPT !.queue = Tail(@)],
                                   Head(queue)))
            /\ last' = [NoCall EXCEPT
                          !.op = "microtask", !.cell = Head(queue).cell,
                          !.fn = Head(queue).handler.onResolved,
                          !.child = Head(queue).handler.resolve,
                          !.outcome =
                            IF Throws(Head(queue).handler.onResolved)
                              THEN "raised" ELSE "returned",
                          !.ranAt = Len(ran)]
            /\ UNCHANGED <<objs, settlers, inTask, taskFrom>>
       ELSE /\ inTask' = TRUE
            /\ taskFrom' = Len(cells)
            /\ last' = [NoCall EXCEPT !.op = "task", !.ranAt = Len(ran)]
            /\ UNCHANGED <<cells, meta, queue, ran, objs, settlers>>

Next ==
  \/ \E producer \in Producers, v \in Values : Promise(producer, v)
  \/ \E p \in 1 .. MaxCells, f \in Fns \cup {"none"} : then(p, f)
  \/ \E c \in 1 .. MaxCells, v \in Values \cup CellRefs : Settle(c, v)
  \/ EndTask
  \/ HostStep

Spec == Init /\ [][Next]_vars

\* The host keeps running the event loop, and a task of the caller's code
\* ends.
FairSpec == Spec /\ WF_vars(HostStep) /\ WF_vars(EndTask)

\* ------------------------------------------------------------- claims
\* The host has run every microtask the last task left behind.
Drained == ~inTask /\ queue = <<>>

\* The cells made by then calls on p.
Children(p) == {c \in DOMAIN meta : meta[c].parent = p}

\* c was made by then(f), f a callback that returns.
Transforms(c) == meta[c].parent # 0 /\ meta[c].fn \in Fns /\ ~Throws(meta[c].fn)

\* A microtask that will deliver to child c waits in the queue.
Queued(c) == \E i \in DOMAIN queue : queue[i].handler.resolve = c

\* The callback of the handler of child c has run, at place i of `ran`.
RanAt(c, i) == i \in DOMAIN ran /\ ran[i].child = c

\* C1: a callback passed to then is not run inside the call that triggers
\* its delivery.  When then(f) on a RESOLVED cell returns, and when
\* settle(v) on a PENDING cell holding a handler with callback f returns,
\* no callback has run during the call and f waits in a microtask.
C1_CallbackDeferred ==
  /\ (last.op = "then" /\ last.preState = "resolved" /\ last.fn # "none")
       => /\ last.outcome = "returned"
          /\ Len(ran) = last.ranAt
          /\ Queued(last.child)
  /\ (last.op = "settle" /\ last.preState = "pending"
        /\ last.preDeferred.onResolved # "none")
       => /\ Len(ran) = last.ranAt
          /\ Queued(last.preDeferred.resolve)

\* C2: after then(f) on a cell that was already RESOLVED, once the
\* microtask queue is drained f has run and the child is RESOLVED.
C2_DeliveredWhenDrained ==
  \A c \in DOMAIN meta :
    (Transforms(c) /\ meta[c].pre = "resolved" /\ Drained)
      => /\ \E i \in DOMAIN ran : RanAt(c, i)
         /\ cells[c].state = "resolved"

\* C3: when settle(v) returns on a cell P on which then was called while P
\* was PENDING, P held the handler, its child is still PENDING, and (with a
\* callback) the delivery waits in a microtask.
C3_ChildPendingAfterSettle ==
  (last.op = "settle" /\ last.preState = "pending"
     /\ Children(last.cell) # {})
    => /\ last.preDeferred # Null
       /\ cells[last.preDeferred.resolve].state = "pending"
       /\ (last.preDeferred.onResolved # "none"
             => Queued(last.preDeferred.resolve))

\* C4: when then returns, it returns a child, and the child is PENDING,
\* whatever the parent's state and with or without a callback.
C4_ChildPendingAtReturn ==
  last.op = "then"
    => /\ last.outcome = "returned"
       /\ last.child \in objs
       /\ cells[last.child].state = "pending"

\* C5: after then(f) on a cell (its only then) that is settled once, to v,
\* the child is RESOLVED with f(v) once the microtask queue is drained.
C5_ChildGetsTransformed ==
  \A c \in DOMAIN meta :
    (Transforms(c) /\ Children(meta[c].parent) = {c}
       /\ meta[meta[c].parent].calls = 1 /\ Drained)
      => /\ cells[c].state = "resolved"
         /\ cells[c].value = Apply(meta[c].fn, cells[meta[c].parent].value)

\* C6: after then() with no callback on a cell (its only then) that is
\* settled once, to v, before or after the then call, the child is RESOLVED
\* with exactly v once the microtask queue is drained.
C6_PassthroughForwards ==
  \A c \in DOMAIN meta :
    (meta[c].parent # 0 /\ meta[c].fn = "none"
       /\ Children(meta[c].parent) = {c}
       /\ meta[meta[c].parent].calls = 1 /\ Drained)
      => /\ cells[c].state = "resolved"
         /\ cells[c].value = cells[meta[c].parent].value

\* C7: then(f) before settle(v) and then(f) after settle(v), on one cell
\* settled once, both end with the child RESOLVED with the same value f(v)
\* once the microtask queue is drained.
C7_OrderIndependent ==
  \A c1, c2 \in DOMAIN meta :
    (Transforms(c1) /\ Transforms(c2)
       /\ meta[c1].parent = meta[c2].parent /\ meta[c1].fn = meta[c2].fn
       /\ meta[c1].pre = "pending" /\ meta[c2].pre = "resolved"
       /\ Children(meta[c1].parent) = {c1, c2}
       /\ meta[meta[c1].parent].calls = 1 /\ Drained)
      => /\ cells[c1].state = "resolved"
         /\ cells[c2].state = "resolved"
         /\ cells[c1].value = cells[c2].value
         /\ cells[c2].value
              = Apply(meta[c2].fn, cells[meta[c2].parent].value)

\* C8: of two then calls with callbacks made in one task on RESOLVED cells,
\* in that order, the first one's callback has run before the second one's
\* once the microtask queue is drained.
C8_FifoDelivery ==
  \A c1, c2 \in DOMAIN meta :
    (Transforms(c1) /\ Transforms(c2) /\ taskFrom < c1 /\ c1 < c2
       /\ meta[c1].pre = "resolved" /\ meta[c2].pre = "resolved" /\ Drained)
      => \E i, j \in DOMAIN ran : i < j /\ RanAt(c1, i) /\ RanAt(c2, j)

\* C9: right after the first call of a cell's resolve, with v (by the
\* caller's code, or by the executor inside the constructor), the cell is
\* RESOLVED and its value is v.
C9_SettlementVisible ==
  (\/ last.op = "settle" /\ last.preState = "pending"
   \/ last.op = "construct" /\ last.arg # Undefined)
    => /\ meta[last.cell].calls = 1
       /\ cells[last.cell].state = "resolved"
       /\ cells[last.cell].value = last.arg

C9_Witness ==
  /\ last.op = "settle" /\ last.preState = "pending" /\ last.arg = MaxVal
  /\ meta[last.cell].calls = 1
  /\ cells[last.cell].state = "resolved"

\* C10: a call settle(w) on a cell already RESOLVED with v leaves its value
\* v.
C10_SettlementOneShot ==
  (last.op = "settle" /\ last.preState = "resolved")
    => cells[last.cell].value = last.preValue

\* C11: over any sequence of then and settle calls, the deferred of a cell
\* is assigned at most once.
C11_SlotAssignedOnce ==
  \A c \in DOMAIN meta : meta[c].stores <= 1

\* C12: then on any cell returns; it has made a new cell, other than the
\* parent, has registered that cell's handler on the parent with one call
\* of the parent's handle, and returns the new cell.
C12_ThenRegistersAndReturns ==
  last.op = "then"
    => /\ last.outcome = "returned"
       /\ last.child # last.cell
       /\ last.child \in objs
       /\ meta[last.child].regs = 1

\* C13: the constructor calls the executor function once, before it
\* returns, with the resolve of the cell under construction; at that call
\* the cell is PENDING with no value and no handler.
C13_ProducerRunOnce ==
  /\ \A c \in DOMAIN meta :
       /\ meta[c].execs = 1
       /\ meta[c].atExec.state = "pending"
       /\ meta[c].atExec.value = Undefined
       /\ meta[c].atExec.deferred = Null
  /\ (last.op = "construct" /\ last.arg # Undefined)
       => /\ cells[last.cell].state = "resolved"
          /\ cells[last.cell].value = last.arg

C13_Witness ==
  /\ last.op = "construct" /\ last.arg = MaxVal
  /\ meta[last.cell].execs = 1
  /\ Len(cells) = MaxCells

\* C14: when the executor function raises without calling resolve, the
\* constructor raises, no microtask is queued, and the cell stays PENDING
\* (and out of the caller's reach) in every later state.
C14_ProducerThrow ==
  /\ \A c \in DOMAIN meta :
       meta[c].raised
         => /\ cells[c] = NewCell
            /\ c \notin objs
            /\ c \notin settlers
  /\ (last.op = "construct" /\ meta[last.cell].raised)
       => /\ last.outcome = "raised"
          /\ Len(queue) = last.queueAt

C14_Witness ==
  \E c \in DOMAIN meta :
    /\ meta[c].parent = 0 /\ meta[c].raised
    /\ last.op = "settle" /\ last.cell > c
    /\ cells[c].state = "pending"

\* C15: once a callback that raises has run in its microtask, the child's
\* resolve has not been called, the child is PENDING with no value, and the
\* parent is RESOLVED.
C15_ThrowLeavesChildPending ==
  \A c \in DOMAIN meta :
    (meta[c].parent # 0 /\ Throws(meta[c].fn)
       /\ \E i \in DOMAIN ran : RanAt(c, i))
      => /\ meta[c].calls = 0
         /\ cells[c].state = "pending"
         /\ cells[c].value = Undefined
         /\ cells[meta[c].parent].state = "resolved"

\* C16: a cell that is RESOLVED is RESOLVED after every step.
C16_ResolvedIsTerminal ==
  [][\A c \in DOMAIN cells :
       cells[c].state = "resolved" => cells'[c].state = "resolved"]_vars

C16_Witness ==
  /\ last.op = "settle" /\ last.preState = "resolved"
  /\ cells[last.cell].state = "resolved"
  /\ \E c \in DOMAIN meta : meta[c].parent = last.cell

\* C17: a cell that is RESOLVED holds no handler.
C17_NoHandlerOnceResolved ==
  \A c \in DOMAIN cells :
    cells[c].state = "resolved" => cells[c].deferred = Null

\* C18: after then(f1) and then then(f2) on one PENDING cell that is then
\* settled once, to v, once the microtask queue is drained f2 has run and
\* the second child is RESOLVED with f2(v), f1 has not run and the first
\* child is PENDING.
C18_SecondThenOverwrites ==
  \A c1, c2 \in DOMAIN meta :
    (Transforms(c1) /\ Transforms(c2) /\ c1 < c2
       /\ meta[c1].parent = meta[c2].parent
       /\ Children(meta[c1].parent) = {c1, c2}
       /\ meta[c1].pre = "pending" /\ meta[c2].pre = "pending"
       /\ meta[meta[c1].parent].calls = 1 /\ Drained)
      => /\ \E i \in DOMAIN ran : RanAt(c2, i)
         /\ cells[c2].state = "resolved"
         /\ cells[c2].value
              = Apply(meta[c2].fn, cells[meta[c2].parent].value)
         /\ ~ \E i \in DOMAIN ran : RanAt(c1, i)
         /\ cells[c1].state = "pending"

\* C19: when then() with no callback returns on a cell already RESOLVED
\* with v, the child is RESOLVED with v and no microtask has been queued.
C19_PassthroughSynchronous ==
  (last.op = "then" /\ last.preState = "resolved" /\ last.fn = "none")
    => /\ last.outcome = "returned"
       /\ cells[last.child].state = "resolved"
       /\ cells[last.child].value = last.preValue
       /\ Len(queue) = last.queueAt

\* C20: settle(v) on a PENDING cell that holds no handler sets its state to
\* RESOLVED and its value to v, and changes nothing else: not the microtask
\* queue, not the callbacks run, not another cell.
C20_SettleWithoutHandler ==
  [][(/\ last'.op = "settle"
      /\ cells[last'.cell].state = "pending"
      /\ cells[last'.cell].deferred = Null)
       => /\ cells'[last'.cell] =
               [state |-> "resolved", value |-> last'.arg,
                deferred |-> Null]
          /\ \A d \in DOMAIN cells \ {last'.cell} : cells'[d] = cells[d]
          /\ DOMAIN cells' = DOMAIN cells
          /\ queue' = queue
          /\ ran' = ran]_vars

C20_Witness ==
  /\ last.op = "settle" /\ last.preState = "pending"
  /\ last.preDeferred = Null /\ last.arg = MaxVal
  /\ Len(cells) = MaxCells
  /\ cells[last.cell].state = "resolved"

\* C21: when then returns on a PENDING cell, the handler it built is the
\* cell's deferred, the cell's state and value and the microtask queue are
\* as before the call, and no callback has been run and the child's resolve
\* has not been called; nor are they until the cell is settled.
C21_AttachOnlyStores ==
  /\ (last.op = "then" /\ last.preState = "pending")
       => /\ last.outcome = "returned"
          /\ cells[last.cell].deferred
               = [onResolved |-> last.fn, resolve |-> last.child]
          /\ cells[last.cell].state = "pending"
          /\ cells[last.cell].value = last.preValue
          /\ Len(queue) = last.queueAt
          /\ Len(ran) = last.ranAt
          /\ meta[last.child].calls = 0
  /\ \A c \in DOMAIN meta :
       (meta[c].parent # 0 /\ cells[meta[c].parent].state = "pending")
         => /\ meta[c].calls = 0
            /\ ~ \E i \in DOMAIN ran : RanAt(c, i)

\* C22: for the chain cell.then(f).then(g) on a cell settled once, to v
\* (one then per cell, f and g callbacks that return): cell.then(f) returns
\* the middle cell, so that then(g) can be called on it; a microtask for g
\* is queued only once the middle cell is RESOLVED; and once the microtask
\* queue is drained f has run before g and the last cell is RESOLVED with
\* g(f(v)).
C22_TwoLinkChain ==
  \A c1 \in DOMAIN meta :
    (Transforms(c1) /\ meta[meta[c1].parent].parent = 0
       /\ Children(meta[c1].parent) = {c1}
       /\ meta[meta[c1].parent].calls = 1)
      => /\ c1 \in objs
         /\ \A c2 \in DOMAIN meta :
              (Transforms(c2) /\ meta[c2].parent = c1 /\ Children(c1) = {c2})
                => /\ (cells[c1].state = "pending" => ~Queued(c2))
                   /\ Drained
                        => /\ \E i, j \in DOMAIN ran :
                                i < j /\ RanAt(c1, i) /\ RanAt(c2, j)
                           /\ cells[c2].state = "resolved"
                           /\ cells[c2].value
                                = Apply(meta[c2].fn,
                                        Apply(meta[c1].fn,
                                              cells[meta[c1].parent].value))

\* C23: a call of a cell's resolve with a value that is itself a cell d
\* leaves the settled cell RESOLVED with d itself as its value, whether d
\* is PENDING or RESOLVED, and leaves d as it was: no handler is stored on
\* d, and d's state and value are not read into the settled cell.
C23_NoUnwrapping ==
  [][(last'.op = "settle" /\ IsCell(last'.arg))
       => /\ cells'[last'.cell].state = "resolved"
          /\ cells'[last'.cell].value = last'.arg
          /\ cells'[CellOf(last'.arg)].deferred
               = cells[CellOf(last'.arg)].deferred
          /\ meta'[CellOf(last'.arg)].stores
               = meta[CellOf(last'.arg)].stores
          /\ CellOf(last'.arg) # last'.cell
               => cells'[CellOf(last'.arg)] = cells[CellOf(last'.arg)]]_vars

\* Cell 1 was settled with itself while PENDING, and now another cell has
\* been settled with cell 1, RESOLVED.
C23_Witness ==
  /\ last.op = "settle" /\ last.arg = CellRef(1) /\ last.cell # 1
  /\ last.preState = "pending"
  /\ cells[last.cell] =
       [state |-> "resolved", value |-> CellRef(1), deferred |-> Null]
  /\ meta[1].calls = 1
  /\ cells[1] =
       [state |-> "resolved", value |-> CellRef(1), deferred |-> Null]

\* C24: a cell made by then is RESOLVED only if the cell then was called on
\* is RESOLVED.
C24_ChildAfterParent ==
  \A c \in DOMAIN meta :
    (meta[c].parent # 0 /\ cells[c].state = "resolved")
      => cells[meta[c].parent].state = "resolved"

\* C25: the step that runs a microtask passes to the callback the value the
\* parent cell holds at that step, whatever it held when the microtask was
\* queued.
C25_ValueReadAtRun ==
  [][last'.op = "microtask"
       => /\ Len(ran') = Len(ran) + 1
          /\ ran'[Len(ran')].arg = cells[last'.cell].value]_vars

\* C26: as long as the resolve of every cell the caller made itself has
\* been called at most once, the callback of every then call has run at
\* most once and the resolve of every cell made by then has been called at
\* most once.
C26_AtMostOnce ==
  (\A p \in DOMAIN meta : meta[p].parent = 0 => meta[p].calls <= 1)
    => \A c \in DOMAIN meta :
         meta[c].parent # 0
           => /\ Cardinality({i \in DOMAIN ran : RanAt(c, i)}) <= 1
              /\ meta[c].calls <= 1

\* The cells are one linear chain: cell 1 made by the caller, and each later
\* cell made by then, with a callback that returns, on the cell before it;
\* and the resolve of cell 1 has been called exactly once.
ChainSettledOnce ==
  /\ Len(meta) >= 2
  /\ meta[1].parent = 0
  /\ \A c \in 2 .. Len(meta) : Transforms(c) /\ meta[c].parent = c - 1
  /\ meta[1].calls = 1

\* No microtask waits and every chained cell is RESOLVED.
Quiescent ==
  /\ queue = <<>>
  /\ \A c \in 2 .. Len(meta) : cells[c].state = "resolved"

\* C27: with the host running the event loop and every task ending, a
\* linear chain of then calls on a root settled exactly once leads to a
\* state where no microtask waits and every chained cell is RESOLVED (unless
\* the caller's code ends the premise first: another settle of the root, or
\* a cell off the chain); and from such a state no step queues a microtask
\* as long as no further then call is made.
C27_Quiescence ==
  /\ ChainSettledOnce ~> (Quiescent \/ ~ChainSettledOnce)
  /\ [][(ChainSettledOnce /\ Quiescent /\ ChainSettledOnce'
           /\ Len(cells') = Len(cells))
          => queue' = <<>>]_vars

====
